---- MODULE Spec2Model ----
(***************************************************************************)
(* The Redis-backed formatting queue of the worker (src/queue.js) and its  *)
(* Dispatcher (processQueue, src/process-queue.js).                        *)
(*                                                                         *)
(* The store is one Redis instance: the sorted set 'queue:formatacao' and  *)
(* the expiring keys 'task:<id>'.  Every Redis command is atomic; a        *)
(* process may be overtaken by any other process at each await, so every   *)
(* action below is the code between two awaits together with the one       *)
(* store command it ends in.                                               *)
(*                                                                         *)
(* Time is in milliseconds since the instant the model starts (Date.now()  *)
(* minus that instant): scores are only ever compared with each other, so  *)
(* the common offset does not matter.                                      *)
(***************************************************************************)
EXTENDS Integers, FiniteSets, Sequences, TLC

\* ------------------------------------------------------------- bounds
NumJobs == 2
NumDispatchers == 2
MaxTicks == 1
\* the largest maxRetries executeWithRetry is called with
RetryBound == 4

\* -------------------------------------------------- program constants
WEIGHT == 1000000
RETENTION_S == 3600
MAX_ATTEMPTS == 3
DELAY_MS == 2000

RetentionMs == RETENTION_S * 1000

Jobs == 1 .. NumJobs
Dispatchers == 1 .. NumDispatchers
\* The priorities a producer passes (the default is 5; smaller is more urgent).
Priorities == {4, 5}
\* How far the clock moves in one step: a millisecond, or a retention window.
Deltas == {1, RetentionMs}
\* The clock may move by a millisecond between the two Date.now() reads of
\* enqueueFormatacao (createdAt, then the score).
Skews == {0, 1}
\* The clock steps of the deployment whose status is polled: a millisecond, or
\* what is left of a retention window after it.
PollDeltas == {1, RetentionMs - 1}
\* The deployments explored: several producers and one Dispatcher trigger;
\* one job and overlapping Dispatcher triggers; one job and one Dispatcher
\* trigger with a client polling GET /status/:jobId and GET /queue/size over
\* a longer time.
Deployments ==
  {[jobs |-> Jobs, dispatchers |-> {1}, polls |-> FALSE, ticks |-> MaxTicks,
    deltas |-> Deltas],
   [jobs |-> {1}, dispatchers |-> Dispatchers, polls |-> FALSE, ticks |-> MaxTicks,
    deltas |-> Deltas],
   [jobs |-> {1}, dispatchers |-> {1}, polls |-> TRUE, ticks |-> MaxTicks + 1,
    deltas |-> PollDeltas]}

MaxAttemptsError == "Maximo de tentativas excedido"
Undefined == [kind |-> "undefined"]

VARIABLES
  deployment,  \* who runs: the jobs submitted and the Dispatchers triggered
  redisUrl,    \* whether process.env.REDIS_URL is set (getRedisClient yields a client)
  now,         \* Date.now()
  ticks,       \* how often the clock has moved (bounded by deployment.ticks)
  queue,       \* the sorted set queue:formatacao: a set of [member, score]
  status,      \* the keys task:<id>: id -> record, NoRecord when absent
  epc,         \* per job: where its enqueueFormatacao call stands
  pc,          \* per Dispatcher: where its processQueue invocation stands
  taskData,    \* per Dispatcher: the member dequeueFormatacao read (tasks[0])
  task,        \* per Dispatcher: the task object of the invocation
  outcome,     \* per Dispatcher: how processarFormatacao ended
  requeued,    \* per Dispatcher: what requeueFormatacao returned
  returned,    \* history: the members dequeueFormatacao calls have returned
  terminal,    \* history: the ids requeueFormatacao recorded as failed
  reached,     \* history: per id, the highest attempts stored or reached
  calls,       \* history: per Dispatcher, the calls its invocation has made
  written,     \* history: per id, the time of the last SET of task:<id>, or Never
  executed,    \* history: per id, how often processarFormatacao was called for it
  reply,       \* what the last GET /status/:jobId or GET /queue/size call got
  \* executeWithRetry (src/retry.js), one call of it:
  rpc,         \* where the call stands
  maxRetries,  \* its argument maxRetries
  delayMs,     \* its argument delayMs
  attempt,     \* the loop variable
  lastError,   \* the variable lastError (Undefined until assigned)
  result,      \* what the call returned or threw
  fnCalls,     \* history: how each fn() call ended, in order
  sleeps       \* history: the arguments of the sleep(ms) calls, in order

queueVars == <<deployment, redisUrl, now, ticks, queue, status, epc, pc, taskData, task,
               outcome, requeued, returned, terminal, reached, calls, written, executed,
               reply>>

retryVars == <<rpc, maxRetries, delayMs, attempt, lastError, result, fnCalls, sleeps>>

vars == <<queueVars, retryVars>>

\* ------------------------------------------------------ serialization
\* JSON.stringify(task): the fields in the order the object literal lists
\* them.  type is always 'formatacao' and the payload fields belong to the
\* id, so a member is told apart by id, priority, createdAt, attempts and
\* maxAttempts.
JSONstringify(t) == <<t.id, t.priority, t.createdAt, t.attempts, t.maxAttempts>>

JSONparse(s) ==
  [id |-> s[1], priority |-> s[2], createdAt |-> s[3], attempts |-> s[4],
   maxAttempts |-> s[5]]

\* A member that is not JSON: all that matters of it is that JSON.parse throws
\* a SyntaxError on it.  No task has the id 0.
Garbage == <<0, 0, 0, 0, 0>>
SyntaxError(s) == s = Garbage

NoTask == [id |-> 0, priority |-> 0, createdAt |-> 0, attempts |-> 0, maxAttempts |-> 0]
NoData == <<>>

\* Redis orders members of equal score by their bytes: here field by field,
\* the ids and the timestamps being strings of one length each.
RECURSIVE LexLess(_, _)
LexLess(a, b) ==
  IF a = <<>> \/ b = <<>> THEN a = <<>> /\ b # <<>>
  ELSE IF Head(a) # Head(b) THEN Head(a) < Head(b)
  ELSE LexLess(Tail(a), Tail(b))

\* ------------------------------------------------------------- store
\* A client that is made whether or not REDIS_URL is set.
AlwaysClient == TRUE

\* getRedisClient (13-37): a client only when REDIS_URL is set.
getRedisClient == redisUrl

\* ZADD key score member: a member already present only changes its score.
ZAdd(q, score, member) ==
  {e \in q : e.member # member} \cup {[member |-> member, score |-> score]}

\* ZREM key member
ZRem(q, member) == {e \in q : e.member # member}

EntryBefore(e, f) ==
  \/ e.score < f.score
  \/ e.score = f.score /\ LexLess(e.member, f.member)

\* ZRANGE key 0 0: the members of rank 0, lowest score first.
ZRange00(q) ==
  IF q = {} THEN <<>>
  ELSE <<(CHOOSE e \in q : \A f \in q \ {e} : EntryBefore(e, f)).member>>

\* A count that is one too high.
ZCardPlusOne(q) == Cardinality(q) + 1

\* ZCARD key
ZCard(q) == Cardinality(q)

NoRecord == [status |-> "none", error |-> "", expiresAt |-> 0]

\* The calls an invocation has made, and which of them threw.
NoCalls == [dequeue |-> 0, executor |-> 0, save |-> 0, requeue |-> 0, threw |-> {}]
Never == <<>>
NoReply == [op |-> "none", id |-> 0, value |-> <<>>]

\* SET key value KEEPTTL: an existing key keeps the expiry it had.
SetKeepTtl(st, id, value, err) ==
  [st EXCEPT ![id] = [status |-> value, error |-> err,
                      expiresAt |-> IF st[id].status = "none" THEN now + RetentionMs
                                    ELSE st[id].expiresAt]]

\* SET key value EX 3600
SetEx(st, id, value, err) ==
  [st EXCEPT ![id] = [status |-> value, error |-> err, expiresAt |-> now + RetentionMs]]

\* GET key: nil once the key has expired.
Get(st, id) == IF st[id].status # "none" /\ now < st[id].expiresAt THEN st[id] ELSE NoRecord

\* The keys whose time to live has run out at time t are gone.
Expire(st, t) ==
  [i \in Jobs |-> IF st[i].status # "none" /\ st[i].expiresAt <= t THEN NoRecord ELSE st[i]]

\* -------------------------------------------------------------- Init
Init ==
  /\ deployment \in Deployments
  /\ redisUrl \in BOOLEAN
  /\ now = 0
  /\ ticks = 0
  /\ queue = {}
  /\ status = [i \in Jobs |-> NoRecord]
  /\ epc = [j \in Jobs |-> "start"]
  /\ pc = [d \in Dispatchers |-> "idle"]
  /\ taskData = [d \in Dispatchers |-> NoData]
  /\ task = [d \in Dispatchers |-> NoTask]
  /\ outcome = [d \in Dispatchers |-> "none"]
  /\ requeued = [d \in Dispatchers |-> "none"]
  /\ returned = {}
  /\ terminal = {}
  /\ reached = [i \in Jobs |-> 0]
  /\ calls = [d \in Dispatchers |-> NoCalls]
  /\ written = [i \in Jobs |-> Never]
  /\ executed = [i \in Jobs |-> 0]
  /\ reply = NoReply
  /\ rpc = "off"
  /\ maxRetries = 0
  /\ delayMs = 0
  /\ attempt = 0
  /\ lastError = Undefined
  /\ result = Undefined
  /\ fnCalls = <<>>
  /\ sleeps = <<>>

\* ------------------------------------------------------------- clock
Tick(delta) ==
  /\ ticks < deployment.ticks
  /\ delta \in deployment.deltas
  /\ now' = now + delta
  /\ ticks' = ticks + 1
  /\ status' = Expire(status, now + delta)
  /\ UNCHANGED <<retryVars, deployment, redisUrl, queue, epc, pc, taskData, task, outcome,
                 requeued, returned, terminal, reached, calls, written, reply, executed>>

\* ------------------------------------------- enqueueFormatacao (42-75)
\* The task object of lines 49-60.
NewTask(jobId, priority, createdAt) ==
  [id |-> jobId, priority |-> priority, createdAt |-> createdAt, attempts |-> 0,
   maxAttempts |-> MAX_ATTEMPTS]

\* Line 63.
EnqueueScore(priority, t) == priority * WEIGHT + t

\* A requeue at the score of a new task.
RequeueScoreUndegraded(t, at) == t.priority * WEIGHT + at

\* Line 149.
RequeueScore(t, at) == (t.priority + t.attempts) * WEIGHT + at

\* Lines 43-47: no client, the call throws.
EnqueueThrow(j) ==
  /\ epc[j] = "start"
  /\ ~getRedisClient
  /\ epc' = [epc EXCEPT ![j] = "thrown"]
  /\ UNCHANGED <<retryVars, deployment, redisUrl, now, ticks, queue, status, pc, taskData,
                 task, outcome, requeued, returned, terminal, reached, calls, written, reply,
                 executed>>

\* Lines 49-64: the task is built (createdAt is one Date.now()), the score is
\* computed (another Date.now()) and ZADD is sent.
EnqueueZadd(j, priority, skew) ==
  /\ epc[j] = "start"
  /\ getRedisClient
  /\ ticks + skew <= deployment.ticks
  /\ LET t == NewTask(j, priority, now)
     IN queue' = ZAdd(queue, EnqueueScore(priority, now + skew), JSONstringify(t))
  /\ now' = now + skew
  /\ ticks' = ticks + skew
  /\ status' = Expire(status, now + skew)
  /\ epc' = [epc EXCEPT ![j] = "set"]
  /\ UNCHANGED <<retryVars, deployment, redisUrl, pc, taskData, task, outcome, requeued,
                 returned, terminal, reached, calls, written, reply, executed>>

\* Lines 66-74: SET task:<jobId> {status: 'queued'} EX 3600, then return jobId.
EnqueueSet(j) ==
  /\ epc[j] = "set"
  /\ status' = SetEx(status, j, "queued", "")
  /\ written' = [written EXCEPT ![j] = <<now>>]
  /\ epc' = [epc EXCEPT ![j] = "returned"]
  /\ UNCHANGED <<retryVars, deployment, redisUrl, now, ticks, queue, pc, taskData, task,
                 outcome, requeued, returned, terminal, reached, calls, reply, executed>>

\* ---------------------------------------------- saveTaskResult (114-129)
\* A saveTaskResult that returns without writing, client or not.
saveNothing(st, taskId, value, err) == st

saveTaskResult(st, taskId, value, err) ==
  IF getRedisClient THEN SetEx(st, taskId, value, err) ELSE st

\* ---------------------------- processQueue (11-52) and what it calls
\* dequeueFormatacao 81-85: no client, null; processQueue returns (17-20).
DequeueNoClient(d) ==
  /\ pc[d] = "idle"
  /\ ~getRedisClient
  /\ calls' = [calls EXCEPT ![d].dequeue = @ + 1]
  /\ pc' = [pc EXCEPT ![d] = "end"]
  /\ UNCHANGED <<retryVars, deployment, redisUrl, now, ticks, queue, status, epc, taskData,
                 task, outcome, requeued, returned, terminal, reached, written, reply,
                 executed>>

\* dequeueFormatacao 88-92: ZRANGE finds nothing, null; processQueue returns.
DequeueEmpty(d) ==
  /\ pc[d] = "idle"
  /\ getRedisClient
  /\ ZRange00(queue) = <<>>
  /\ calls' = [calls EXCEPT ![d].dequeue = @ + 1]
  /\ pc' = [pc EXCEPT ![d] = "end"]
  /\ UNCHANGED <<retryVars, deployment, redisUrl, now, ticks, queue, status, epc, taskData,
                 task, outcome, requeued, returned, terminal, reached, written, reply,
                 executed>>

\* dequeueFormatacao 88-95: ZRANGE 0 0, then JSON.parse of the member.
DequeueRead(d) ==
  /\ pc[d] = "idle"
  /\ getRedisClient
  /\ ZRange00(queue) # <<>>
  /\ ~SyntaxError(ZRange00(queue)[1])
  /\ taskData' = [taskData EXCEPT ![d] = ZRange00(queue)[1]]
  /\ task' = [task EXCEPT ![d] = JSONparse(ZRange00(queue)[1])]
  /\ calls' = [calls EXCEPT ![d].dequeue = @ + 1]
  /\ pc' = [pc EXCEPT ![d] = "zrem"]
  /\ UNCHANGED <<retryVars, deployment, redisUrl, now, ticks, queue, status, epc, outcome,
                 requeued, returned, terminal, reached, written, reply, executed>>

\* dequeueFormatacao 98: ZREM of the member read; its reply is not looked at.
DequeueZrem(d) ==
  /\ pc[d] = "zrem"
  /\ queue' = ZRem(queue, taskData[d])
  /\ pc' = [pc EXCEPT ![d] = "set"]
  /\ UNCHANGED <<retryVars, deployment, redisUrl, now, ticks, status, epc, taskData, task,
                 outcome, requeued, returned, terminal, reached, calls, written, reply,
                 executed>>

\* dequeueFormatacao 101-108: SET task:<id> {status: 'processing'} EX 3600 and
\* the task is returned to processQueue, which calls processarFormatacao with
\* it (22-26) before anything else can happen.
DequeueSet(d) ==
  /\ pc[d] = "set"
  /\ status' = SetEx(status, task[d].id, "processing", "")
  /\ written' = [written EXCEPT ![task[d].id] = <<now>>]
  /\ returned' = returned \cup {taskData[d]}
  /\ executed' = [executed EXCEPT ![task[d].id] = @ + 1]
  /\ pc' = [pc EXCEPT ![d] = "exec"]
  /\ UNCHANGED <<retryVars, deployment, redisUrl, now, ticks, queue, epc, taskData, task,
                 outcome, requeued, terminal, reached, calls, reply>>

\* processarFormatacao (188-348) as processQueue sees it at lines 24-38:
\*   ok        the formatting was done and the call returned;
\*   absorbed  the formatting failed, the function's own catch (319-347)
\*             reported it and the call returned normally;
\*   raised    the call raised (the awaits of 323-339 are outside any try).
\* The call touches neither the queue nor the status keys, so its end is
\* taken together with the store command processQueue sends next.
Outcomes == {"ok", "absorbed", "raised"}

\* Where processQueue goes after the call: line 35 when it returned, the catch
\* of line 38 when it raised.
AfterExecutor(o) == IF o = "raised" THEN "requeue" ELSE "save"

\* A worker that takes the next task once one is recorded, instead of
\* returning.
AfterOutcomeLoop == "idle"

\* processQueue 36 and 44-47: once the outcome is recorded the invocation runs
\* to its end (52); there is no loop back to line 15.
AfterOutcome == "end"

\* The time of the SET that saveTaskResult sends, when it sends one.
Stamp(w, taskId) == IF getRedisClient THEN [w EXCEPT ![taskId] = <<now>>] ELSE w

\* processQueue 26-36: the executor returned, saveTaskResult(task.id, 'success').
SaveSuccess(d, o) ==
  /\ pc[d] = "exec"
  /\ AfterExecutor(o) = "save"
  /\ outcome' = [outcome EXCEPT ![d] = o]
  /\ calls' = [calls EXCEPT ![d].executor = @ + 1, ![d].save = @ + 1]
  /\ status' = saveTaskResult(status, task[d].id, "success", "")
  /\ written' = Stamp(written, task[d].id)
  /\ pc' = [pc EXCEPT ![d] = AfterOutcome]
  /\ UNCHANGED <<retryVars, deployment, redisUrl, now, ticks, queue, epc, taskData, task,
                 requeued, returned, terminal, reached, reply, executed>>

\* Line 143 with > for >=: one attempt too many.
ExhaustedLate(t) == t.attempts > t.maxAttempts

\* requeueFormatacao 143
Exhausted(t) == t.attempts >= t.maxAttempts

Max(a, b) == IF a >= b THEN a ELSE b

\* A requeue that also degrades the priority stored in the task.
AttemptDegraded(t) == [t EXCEPT !.attempts = @ + 1, !.priority = @ + 1]

\* requeueFormatacao 141: task.attempts += 1
Attempt(t) == [t EXCEPT !.attempts = @ + 1]

\* An error that leaves processQueue: the invoker's promise is rejected.
NoOuterCatch == "raised"

\* processQueue 49-51: whatever is thrown inside the outer try is logged and
\* the invocation runs to its end.
OuterCatch == "end"

\* requeueFormatacao (134-155) called by d: with no client it throws; else
\* attempts += 1, then either the failed status is saved and false returned,
\* or the task is put back with ZADD and true returned.
requeueFormatacao(d) ==
  LET t == Attempt(task[d])
  IN IF ~getRedisClient
     THEN /\ requeued' = [requeued EXCEPT ![d] = "thrown"]
          /\ pc' = [pc EXCEPT ![d] = OuterCatch]
          /\ UNCHANGED <<task, reached, queue, status, terminal, written>>
     ELSE /\ task' = [task EXCEPT ![d] = t]
          /\ reached' = [reached EXCEPT ![t.id] = Max(@, t.attempts)]
          /\ pc' = [pc EXCEPT ![d] = AfterOutcome]
          /\ IF Exhausted(t)
             THEN /\ status' = saveTaskResult(status, t.id, "failed", MaxAttemptsError)
                  /\ written' = Stamp(written, t.id)
                  /\ terminal' = terminal \cup {t.id}
                  /\ requeued' = [requeued EXCEPT ![d] = "false"]
                  /\ UNCHANGED queue
             ELSE /\ queue' = ZAdd(queue, RequeueScore(t, now), JSONstringify(t))
                  /\ requeued' = [requeued EXCEPT ![d] = "true"]
                  /\ UNCHANGED <<status, terminal, written>>

\* processQueue 38-42: the executor raised and requeueFormatacao is called.
Requeue(d, o) ==
  /\ pc[d] = "exec"
  /\ AfterExecutor(o) = "requeue"
  /\ outcome' = [outcome EXCEPT ![d] = o]
  /\ calls' = [calls EXCEPT ![d].executor = @ + 1, ![d].requeue = @ + 1]
  /\ requeueFormatacao(d)
  /\ UNCHANGED <<retryVars, deployment, redisUrl, now, ticks, epc, taskData, returned,
                 executed, reply>>

\* processQueue 36 or 44-52: the result is logged and the invocation is over;
\* nothing of it is kept.
Return(d) ==
  /\ pc[d] = "end"
  /\ pc' = [pc EXCEPT ![d] = "idle"]
  /\ taskData' = [taskData EXCEPT ![d] = NoData]
  /\ task' = [task EXCEPT ![d] = NoTask]
  /\ outcome' = [outcome EXCEPT ![d] = "none"]
  /\ requeued' = [requeued EXCEPT ![d] = "none"]
  /\ calls' = [calls EXCEPT ![d] = NoCalls]
  /\ UNCHANGED <<retryVars, deployment, redisUrl, now, ticks, queue, status, epc, returned,
                 terminal, reached, written, reply, executed>>

\* ---------------------------------- the endpoints of index.js (168-186)
\* getTaskStatus (160-174): what GET /status/:jobId answers.
getTaskStatus(st, taskId) ==
  IF ~getRedisClient THEN [status |-> "unknown", error |-> ""]
  ELSE IF Get(st, taskId) = NoRecord THEN [status |-> "not_found", error |-> ""]
  ELSE [status |-> Get(st, taskId).status, error |-> Get(st, taskId).error]

\* getQueueSize (179-187): what GET /queue/size answers.
getQueueSize(q) == IF ~getRedisClient THEN 0 ELSE ZCard(q)

\* GET /status/:jobId (168-176)
GetStatus(taskId) ==
  /\ deployment.polls
  /\ reply' = [op |-> "getTaskStatus", id |-> taskId, value |-> getTaskStatus(status, taskId)]
  /\ UNCHANGED <<retryVars, deployment, redisUrl, now, ticks, queue, status, epc, pc, taskData,
                 task, outcome, requeued, returned, terminal, reached, calls, written,
                 executed>>

\* GET /queue/size (179-186)
GetSize ==
  /\ deployment.polls
  /\ reply' = [op |-> "getQueueSize", id |-> 0, value |-> getQueueSize(queue)]
  /\ UNCHANGED <<retryVars, deployment, redisUrl, now, ticks, queue, status, epc, pc, taskData,
                 task, outcome, requeued, returned, terminal, reached, calls, written,
                 executed>>

\* -------------------------------------------------------------- Next
Next ==
  \/ \E delta \in Deltas \cup PollDeltas : Tick(delta)
  \/ \E j \in deployment.jobs : EnqueueThrow(j)
  \/ \E j \in deployment.jobs, p \in Priorities, skew \in Skews : EnqueueZadd(j, p, skew)
  \/ \E j \in deployment.jobs : EnqueueSet(j)
  \/ \E d \in deployment.dispatchers : DequeueNoClient(d)
  \/ \E d \in deployment.dispatchers : DequeueEmpty(d)
  \/ \E d \in deployment.dispatchers : DequeueRead(d)
  \/ \E d \in deployment.dispatchers : DequeueZrem(d)
  \/ \E d \in deployment.dispatchers : DequeueSet(d)
  \/ \E d \in deployment.dispatchers, o \in Outcomes : SaveSuccess(d, o)
  \/ \E d \in deployment.dispatchers, o \in Outcomes : Requeue(d, o)
  \/ \E d \in deployment.dispatchers : Return(d)
  \/ \E taskId \in Jobs : GetStatus(taskId)
  \/ GetSize

Spec == Init /\ [][Next]_vars

\* A step of Dispatcher d's processQueue invocation, or the start of its next
\* one.
DispatcherStep(d) ==
  /\ d \in deployment.dispatchers
  /\ \/ DequeueNoClient(d)
     \/ DequeueEmpty(d)
     \/ DequeueRead(d)
     \/ DequeueZrem(d)
     \/ DequeueSet(d)
     \/ \E o \in Outcomes : SaveSuccess(d, o)
     \/ \E o \in Outcomes : Requeue(d, o)
     \/ Return(d)

\* The program under the scheduling the lifecycle relies on: every store
\* command and every executor call of an invocation comes to its end, and
\* each Dispatcher is triggered again and again.
LiveSpec == Init /\ [][Next]_vars /\ \A d \in Dispatchers : WF_vars(DispatcherStep(d))

\* ------------------------------------------------- what can go wrong
\* The store rejecting a command (the connection is lost, the server is out
\* of memory or read-only) and a member that is not JSON put into the sorted
\* set from outside.  The faults are looked at in the deployment of one job,
\* one Dispatcher trigger and a polling client.
CorruptScores == {0, 100 * WEIGHT}

\* Somebody else's ZADD of a member that is not JSON, in front of every task
\* (score 0) or behind every task.
Corrupt(score) ==
  /\ redisUrl
  /\ queue' = ZAdd(queue, score, Garbage)
  /\ UNCHANGED <<retryVars, deployment, redisUrl, now, ticks, status, epc, pc, taskData,
                 task, outcome, requeued, returned, terminal, reached, calls, written,
                 executed, reply>>

\* A dequeue that takes the entry out although it could not be parsed.
RemovedAtParseError(q, member) == ZRem(q, member)

\* dequeueFormatacao 95-98: JSON.parse comes before the ZREM, so the entry is
\* still in the sorted set when it throws.
AtParseError(q, member) == q

\* The call counts c with one more call of d's that threw.
Threw(c, d, call) == [c EXCEPT ![d].threw = @ \cup {call}]

\* dequeueFormatacao 88-95: the member of rank 0 is not JSON, JSON.parse
\* throws and the error leaves dequeueFormatacao for processQueue's catch.
DequeueParseThrows(d) ==
  /\ pc[d] = "idle"
  /\ getRedisClient
  /\ ZRange00(queue) # <<>>
  /\ SyntaxError(ZRange00(queue)[1])
  /\ queue' = AtParseError(queue, ZRange00(queue)[1])
  /\ calls' = [Threw(calls, d, "dequeueFormatacao") EXCEPT ![d].dequeue = @ + 1]
  /\ pc' = [pc EXCEPT ![d] = OuterCatch]
  /\ UNCHANGED <<retryVars, deployment, redisUrl, now, ticks, status, epc, taskData, task,
                 outcome, requeued, returned, terminal, reached, written, executed, reply>>

\* enqueueFormatacao 64: the ZADD is rejected and the call throws.
EnqueueZaddFails(j) ==
  /\ epc[j] = "start"
  /\ getRedisClient
  /\ epc' = [epc EXCEPT ![j] = "thrown"]
  /\ UNCHANGED <<retryVars, deployment, redisUrl, now, ticks, queue, status, pc, taskData,
                 task, outcome, requeued, returned, terminal, reached, calls, written,
                 executed, reply>>

\* enqueueFormatacao 67-70: the SET is rejected after the ZADD was done and
\* the call throws.
EnqueueSetFails(j) ==
  /\ epc[j] = "set"
  /\ epc' = [epc EXCEPT ![j] = "thrown"]
  /\ UNCHANGED <<retryVars, deployment, redisUrl, now, ticks, queue, status, pc, taskData,
                 task, outcome, requeued, returned, terminal, reached, calls, written,
                 executed, reply>>

\* dequeueFormatacao 88: the ZRANGE is rejected.
DequeueZrangeFails(d) ==
  /\ pc[d] = "idle"
  /\ getRedisClient
  /\ calls' = [Threw(calls, d, "dequeueFormatacao") EXCEPT ![d].dequeue = @ + 1]
  /\ pc' = [pc EXCEPT ![d] = OuterCatch]
  /\ UNCHANGED <<retryVars, deployment, redisUrl, now, ticks, queue, status, epc, taskData,
                 task, outcome, requeued, returned, terminal, reached, written, executed,
                 reply>>

\* dequeueFormatacao 98: the ZREM is rejected; the entry stays.
DequeueZremFails(d) ==
  /\ pc[d] = "zrem"
  /\ calls' = Threw(calls, d, "dequeueFormatacao")
  /\ pc' = [pc EXCEPT ![d] = OuterCatch]
  /\ UNCHANGED <<retryVars, deployment, redisUrl, now, ticks, queue, status, epc, taskData,
                 task, outcome, requeued, returned, terminal, reached, written, executed,
                 reply>>

\* dequeueFormatacao 101-104: the SET is rejected after the ZREM was done.
DequeueSetFails(d) ==
  /\ pc[d] = "set"
  /\ calls' = Threw(calls, d, "dequeueFormatacao")
  /\ pc' = [pc EXCEPT ![d] = OuterCatch]
  /\ UNCHANGED <<retryVars, deployment, redisUrl, now, ticks, queue, status, epc, taskData,
                 task, outcome, requeued, returned, terminal, reached, written, executed,
                 reply>>

\* processQueue 35 and 38: the SET of saveTaskResult(task.id, 'success') is
\* rejected; the inner catch takes the error.
SaveFails(d, o) ==
  /\ pc[d] = "exec"
  /\ AfterExecutor(o) = "save"
  /\ outcome' = [outcome EXCEPT ![d] = o]
  /\ calls' = [Threw(calls, d, "saveTaskResult") EXCEPT ![d].executor = @ + 1, ![d].save = @ + 1]
  /\ pc' = [pc EXCEPT ![d] = "catch"]
  /\ UNCHANGED <<retryVars, deployment, redisUrl, now, ticks, queue, status, epc, taskData,
                 task, requeued, returned, terminal, reached, written, executed, reply>>

\* processQueue 38-42 after saveTaskResult threw: requeueFormatacao is called.
RequeueCaught(d) ==
  /\ pc[d] = "catch"
  /\ calls' = [calls EXCEPT ![d].requeue = @ + 1]
  /\ requeueFormatacao(d)
  /\ UNCHANGED <<retryVars, deployment, redisUrl, now, ticks, epc, taskData, outcome,
                 returned, executed, reply>>

\* requeueFormatacao 141-150: attempts += 1, then the SET or the ZADD is
\* rejected; the error leaves the inner catch for the outer one.
requeueRejected(d) ==
  /\ task' = [task EXCEPT ![d] = Attempt(task[d])]
  /\ reached' = [reached EXCEPT ![task[d].id] = Max(@, task[d].attempts + 1)]
  /\ requeued' = [requeued EXCEPT ![d] = "thrown"]
  /\ pc' = [pc EXCEPT ![d] = OuterCatch]

\* processQueue 38-42: the executor raised and requeueFormatacao throws.
RequeueFails(d, o) ==
  /\ pc[d] = "exec"
  /\ AfterExecutor(o) = "requeue"
  /\ getRedisClient
  /\ outcome' = [outcome EXCEPT ![d] = o]
  /\ calls' = [Threw(calls, d, "requeueFormatacao") EXCEPT
                 ![d].executor = @ + 1, ![d].requeue = @ + 1]
  /\ requeueRejected(d)
  /\ UNCHANGED <<retryVars, deployment, redisUrl, now, ticks, queue, status, epc, taskData,
                 returned, terminal, written, executed, reply>>

\* processQueue 38-42 after saveTaskResult threw: requeueFormatacao throws too.
RequeueCaughtFails(d) ==
  /\ pc[d] = "catch"
  /\ calls' = [Threw(calls, d, "requeueFormatacao") EXCEPT ![d].requeue = @ + 1]
  /\ requeueRejected(d)
  /\ UNCHANGED <<retryVars, deployment, redisUrl, now, ticks, queue, status, epc, taskData,
                 outcome, returned, terminal, written, executed, reply>>

NextFaults ==
  \/ Next
  \/ \E score \in CorruptScores : Corrupt(score)
  \/ \E d \in deployment.dispatchers : DequeueParseThrows(d)
  \/ \E j \in deployment.jobs : EnqueueZaddFails(j)
  \/ \E j \in deployment.jobs : EnqueueSetFails(j)
  \/ \E d \in deployment.dispatchers : DequeueZrangeFails(d)
  \/ \E d \in deployment.dispatchers : DequeueZremFails(d)
  \/ \E d \in deployment.dispatchers : DequeueSetFails(d)
  \/ \E d \in deployment.dispatchers, o \in Outcomes : SaveFails(d, o)
  \/ \E d \in deployment.dispatchers : RequeueCaught(d)
  \/ \E d \in deployment.dispatchers, o \in Outcomes : RequeueFails(d, o)
  \/ \E d \in deployment.dispatchers : RequeueCaughtFails(d)

InitFaults == Init /\ deployment.polls

SpecFaults == InitFaults /\ [][NextFaults]_vars

TypeOK ==
  /\ deployment \in Deployments
  /\ redisUrl \in BOOLEAN
  /\ now \in Nat
  /\ ticks \in 0 .. deployment.ticks
  /\ \A e \in queue : SyntaxError(e.member) \/ JSONparse(e.member).id \in Jobs
  /\ \A j \in Jobs : epc[j] \in {"start", "set", "returned", "thrown"}
  /\ \A d \in Dispatchers : pc[d] \in {"idle", "zrem", "set", "exec", "catch", "end"}

\* ------------------------------- executeWithRetry (src/retry.js 13-42)
\* The arguments of the call.  fn is any function: each call of it returns
\* one of Results or throws a new error carrying one of Messages.
MaxRetriesValues == 0 .. RetryBound
DelayValues == {0, 1, DELAY_MS}
Results == {"r1", "r2"}
Messages == {"m1", "m2"}

Returned(v) == [kind |-> "returned", value |-> v]
Thrown(e) == [kind |-> "thrown", value |-> e]

\* One call of executeWithRetry on its own: the queue is left as constructed.
InitRetry ==
  /\ deployment = CHOOSE x \in Deployments : x.polls
  /\ redisUrl = FALSE
  /\ now = 0
  /\ ticks = 0
  /\ queue = {}
  /\ status = [i \in Jobs |-> NoRecord]
  /\ epc = [j \in Jobs |-> "start"]
  /\ pc = [d \in Dispatchers |-> "idle"]
  /\ taskData = [d \in Dispatchers |-> NoData]
  /\ task = [d \in Dispatchers |-> NoTask]
  /\ outcome = [d \in Dispatchers |-> "none"]
  /\ requeued = [d \in Dispatchers |-> "none"]
  /\ returned = {}
  /\ terminal = {}
  /\ reached = [i \in Jobs |-> 0]
  /\ calls = [d \in Dispatchers |-> NoCalls]
  /\ written = [i \in Jobs |-> Never]
  /\ executed = [i \in Jobs |-> 0]
  /\ reply = NoReply
  /\ rpc = "start"
  /\ maxRetries \in MaxRetriesValues
  /\ delayMs \in DelayValues
  /\ attempt = 0
  /\ lastError = Undefined
  /\ result = Undefined
  /\ fnCalls = <<>>
  /\ sleeps = <<>>

\* A loop that goes round once more.
LoopTestOneMore(a) == a <= maxRetries + 1

\* Line 16: attempt <= maxRetries
LoopTest(a) == a <= maxRetries

\* Line 31: attempt < maxRetries
SleepsAfter(a) == a < maxRetries

\* The backoff the comment of line 32 speaks of: doubling.
WaitTimeExponential(a) == delayMs * 2 ^ (a - 1)

\* Line 32: waitTime = delayMs * attempt
WaitTime(a) == delayMs * a

\* A catch that keeps the first error.
CaughtFirst(previous, error) == IF previous = Undefined THEN error ELSE previous

\* Line 27: lastError = error
Caught(previous, error) == error

\* Lines 16 and 39-41: the loop test with attempt = a, and the throw of
\* lastError (its value le) when it fails.
Loop(a, le) ==
  /\ attempt' = a
  /\ IF LoopTest(a) THEN rpc' = "call" /\ UNCHANGED result
     ELSE rpc' = "done" /\ result' = Thrown(le)

\* Lines 13-16: the call is entered, lastError declared, attempt = 1.
RetryEnter ==
  /\ rpc = "start"
  /\ Loop(1, lastError)
  /\ UNCHANGED <<queueVars, maxRetries, delayMs, lastError, fnCalls, sleeps>>

\* Lines 19-25: fn() returns v and executeWithRetry returns it.
RetryFnReturns(v) ==
  /\ rpc = "call"
  /\ fnCalls' = Append(fnCalls, Returned(v))
  /\ result' = Returned(v)
  /\ rpc' = "done"
  /\ UNCHANGED <<queueVars, maxRetries, delayMs, attempt, lastError, sleeps>>

\* Lines 19 and 26-35: fn() throws; the error is kept in lastError and, unless
\* this was the last attempt, sleep(delayMs * attempt) is called; otherwise
\* the loop goes on to its test.
RetryFnThrows(message) ==
  /\ rpc = "call"
  /\ LET error == [call |-> Len(fnCalls) + 1, message |-> message]
     IN /\ fnCalls' = Append(fnCalls, Thrown(error))
        /\ lastError' = Caught(lastError, error)
  /\ IF SleepsAfter(attempt)
     THEN /\ sleeps' = Append(sleeps, WaitTime(attempt))
          /\ rpc' = "sleep"
          /\ UNCHANGED <<attempt, result>>
     ELSE /\ Loop(attempt + 1, lastError')
          /\ UNCHANGED sleeps
  /\ UNCHANGED <<queueVars, maxRetries, delayMs>>

\* Lines 34-37 and 16: the sleep is over, attempt++ and the loop test.
RetrySleepDone ==
  /\ rpc = "sleep"
  /\ Loop(attempt + 1, lastError)
  /\ UNCHANGED <<queueVars, maxRetries, delayMs, lastError, fnCalls, sleeps>>

NextRetry ==
  \/ RetryEnter
  \/ \E v \in Results : RetryFnReturns(v)
  \/ \E message \in Messages : RetryFnThrows(message)
  \/ RetrySleepDone

SpecRetry == InitRetry /\ [][NextRetry]_vars

\* ------------------------------------------------------------ claims
Task(e) == JSONparse(e.member)

\* The Date.now() of line 63 that an entry's score was computed from.
ScoreTime(e) == e.score - Task(e).priority * WEIGHT

\* d's dequeueFormatacao reads the queue in this step.
Reads(d) == pc[d] = "idle" /\ pc'[d] = "zrem"

\* d's dequeueFormatacao returns its task in this step.
Returns(d) == pc[d] = "set" /\ pc'[d] = "exec"

\* d's invocation records its outcome in this step.
Records(d) == pc[d] = "exec" /\ pc'[d] = "end"

\* C1: at-most-once delivery: no member of the queue is returned by more than
\* one dequeueFormatacao call.
C1_AtMostOnce ==
  [][\A d \in Dispatchers : Returns(d) => taskData[d] \notin returned]_vars

\* C2: priority ordering: a dequeue that finds two never-requeued tasks pending
\* never takes the one of the larger priority number, however far apart they
\* were enqueued.
C2_PriorityOrdering ==
  [][\A d \in Dispatchers : Reads(d) =>
       \A a \in queue :
         ~(/\ Task(a).attempts = 0
           /\ task'[d].attempts = 0
           /\ Task(a).priority < task'[d].priority)]_vars

\* C3: FIFO within priority: a dequeue that finds two never-requeued tasks of
\* one priority pending never takes the one created (createdAt) strictly later.
C3_FifoWithinPriority ==
  [][\A d \in Dispatchers : Reads(d) =>
       \A b1 \in queue :
         ~(/\ Task(b1).attempts = 0
           /\ task'[d].attempts = 0
           /\ Task(b1).priority = task'[d].priority
           /\ Task(b1).createdAt < task'[d].createdAt)]_vars

\* The order C3 asks for, by the Date.now() the score was computed from: a
\* dequeue never takes the never-requeued task whose score time is strictly
\* later.
FifoByScoreTime ==
  [][\A d \in Dispatchers : Reads(d) =>
       \A b1, b2 \in queue :
         ~(/\ b2.member = taskData'[d]
           /\ Task(b1).attempts = 0
           /\ Task(b2).attempts = 0
           /\ Task(b1).priority = Task(b2).priority
           /\ ScoreTime(b1) < ScoreTime(b2))]_vars

\* C4: requeue adds exactly one to attempts; when the new attempts reach
\* maxAttempts it stores failed with the max-attempts error, returns false and
\* leaves the queue alone; otherwise it puts the task back and returns true.
C4_RetryExhaustion ==
  [][\A d \in Dispatchers :
       (Records(d) /\ requeued'[d] # "none") =>
         /\ task'[d] = [task[d] EXCEPT !.attempts = task[d].attempts + 1]
         /\ IF task'[d].attempts >= MAX_ATTEMPTS
            THEN /\ requeued'[d] = "false"
                 /\ status'[task[d].id].status = "failed"
                 /\ status'[task[d].id].error = MaxAttemptsError
                 /\ status'[task[d].id].expiresAt > now
                 /\ queue' = queue
            ELSE /\ requeued'[d] = "true"
                 /\ \E e \in queue' : e.member = JSONstringify(task'[d])
                 /\ status' = status]_vars

\* C4's case: a third requeue has returned false and getStatus reports failed.
C4_Witness ==
  \E d \in Dispatchers :
    /\ pc[d] = "end"
    /\ requeued[d] = "false"
    /\ task[d].attempts = 3
    /\ Get(status, task[d].id).status = "failed"
    /\ reached[task[d].id] = 3

\* C5: once requeue has recorded an id as failed, no entry of that id is put
\* into the queue and no Dispatcher is handed a task of that id.
C5_TerminalFailureFinal ==
  [][\A i \in terminal :
       /\ \A e \in queue' : Task(e).id = i => e \in queue
       /\ \A d \in Dispatchers : Returns(d) => task[d].id # i]_vars

\* C6: an invocation whose executor failed ends with requeue called: the task
\* is back in the queue with attempts one higher, or its status is failed.
C6_ExecutorFailureRequeued ==
  [][\A d \in Dispatchers :
       (Records(d) /\ outcome'[d] # "ok") =>
         /\ requeued'[d] \in {"true", "false"}
         /\ \/ \E e \in queue' :
                 /\ Task(e).id = task[d].id
                 /\ Task(e).attempts = task[d].attempts + 1
            \/ status'[task[d].id].status = "failed"]_vars

\* C7: an invocation whose executor's work failed does not store success.
C7_SuccessOnlyAfterSuccess ==
  [][\A d \in Dispatchers :
       (Records(d) /\ outcome'[d] # "ok") =>
         ~(/\ status'[task[d].id].status = "success"
           /\ status'[task[d].id] # status[task[d].id])]_vars

\* C8: a stored success or failed is never replaced by queued or processing.
C8_StatusLifecycle ==
  [][\A i \in Jobs :
       status[i].status \in {"success", "failed"} =>
         status'[i].status \notin {"queued", "processing"}]_vars

\* C9: every entry of the queue has a live status record that says queued or
\* processing.
C9_QueuedTaskHasStatus ==
  \A e \in queue : Get(status, Task(e).id).status \in {"queued", "processing"}

\* C10: the attempts of an entry put into the queue are never below a value
\* stored or reached before for its id.
C10_AttemptsMonotonic ==
  [][\A e \in queue' :
       e \notin queue => Task(e).attempts >= reached[Task(e).id]]_vars

\* C11: with no store client, enqueueFormatacao throws, and neither then nor
\* ever is there an entry in the queue or a status record.
C11_EnqueueBackendDown ==
  /\ [](~redisUrl => (queue = {} /\ \A i \in Jobs : status[i] = NoRecord))
  /\ [][\A j \in Jobs :
         (~redisUrl /\ epc[j] = "start" /\ epc'[j] # "start") =>
           (epc'[j] = "thrown" /\ queue' = queue /\ status' = status)]_vars

\* C11's case: REDIS_URL is not set and an enqueueFormatacao call has thrown.
C11_Witness ==
  /\ ~redisUrl
  /\ \E j \in Jobs : epc[j] = "thrown" /\ status[j] = NoRecord
  /\ queue = {}

\* d's dequeueFormatacao has returned null to processQueue.
GotNull(d) ==
  pc[d] = "end" /\ calls[d].dequeue = 1 /\ calls[d].threw = {} /\ task[d] = NoTask

\* C12: with no store client no operation returns a value: no dequeue
\* returns null, no size call answers a number and no status call answers a
\* record.
C12_BackendDownAlwaysFails ==
  ~redisUrl =>
    /\ \A d \in Dispatchers : ~GotNull(d)
    /\ reply.op # "getQueueSize"
    /\ reply.op # "getTaskStatus"

\* The endpoint call op answers in this step.
Answers(op) == reply' # reply /\ reply'.op = op

StatusValues == {"queued", "processing", "success", "failed", "not_found"}

\* What getStatus is to answer for id in the state at hand.
Expected(id) ==
  IF Get(status, id) = NoRecord THEN [status |-> "not_found", error |-> ""]
  ELSE [status |-> status[id].status, error |-> status[id].error]

\* C13: getTaskStatus answers the stored record when a live one exists and
\* not_found exactly when none does; its status is one of queued, processing,
\* success, failed, not_found; not_found is never stored.
C13_GetStatus ==
  /\ [](\A i \in Jobs : status[i].status # "not_found")
  /\ [][Answers("getTaskStatus") =>
         /\ reply'.value = Expected(reply'.id)
         /\ reply'.value.status \in StatusValues]_vars

\* What C13 asks for, where a store client exists.
GetStatusWithClient ==
  /\ [](\A i \in Jobs : status[i].status # "not_found")
  /\ [][(redisUrl /\ Answers("getTaskStatus")) =>
         /\ reply'.value = Expected(reply'.id)
         /\ reply'.value.status \in StatusValues]_vars

\* The ZADD of j's enqueueFormatacao call has been done.
Enqueued(j) == epc[j] \in {"set", "returned"}

\* C14: under LiveSpec, for every job that is enqueued, a success or failed
\* status is stored at some time and from some time on the queue holds no
\* entry of it, whatever the executor calls do.
C14_Liveness ==
  \A j \in Jobs :
    <>Enqueued(j) =>
      /\ <>(status[j].status \in {"success", "failed"})
      /\ <>[](\A e \in queue : Task(e).id # j)

\* C14's case: the executor raised on each of the three attempts of a job;
\* failed is stored, no entry of the job is left and the Dispatchers are idle.
C14_Witness ==
  \E j \in Jobs :
    /\ Enqueued(j)
    /\ reached[j] = MAX_ATTEMPTS
    /\ status[j].status = "failed"
    /\ \A e \in queue : Task(e).id # j
    /\ \A d \in Dispatchers : pc[d] = "idle"

\* C15: with a store client, getTaskStatus answers not_found for an id exactly
\* when task:<id> was never set or 3600 s have passed since the last SET of
\* it, whichever of enqueue, dequeue and saveTaskResult sent that SET.
C15_StatusExpiry ==
  redisUrl =>
    \A i \in Jobs :
      getTaskStatus(status, i).status = "not_found"
        <=> (written[i] = Never \/ now >= written[i][1] + RETENTION_S * 1000)

\* C15's case: a record set at time 0 is asked for at 3600 s sharp and the
\* answer is not_found.
C15_Witness ==
  /\ reply.op = "getTaskStatus"
  /\ reply.value.status = "not_found"
  /\ written[reply.id] = <<0>>
  /\ now = RETENTION_S * 1000

\* C16: on an empty queue dequeueFormatacao returns null and getQueueSize
\* returns 0, and neither changes the queue or a status record.
C16_EmptyQueue ==
  [][queue = {} =>
       /\ \A d \in Dispatchers :
            (pc[d] = "idle" /\ pc'[d] # "idle") =>
              (GotNull(d)' /\ queue' = queue /\ status' = status)
       /\ Answers("getQueueSize") =>
            (reply'.value = 0 /\ queue' = queue /\ status' = status)]_vars

\* C16's case: with a store client and an empty queue, a dequeue has returned
\* null and the size asked for after it was 0.
C16_Witness ==
  /\ redisUrl
  /\ queue = {}
  /\ \E d \in Dispatchers : GotNull(d)
  /\ reply.op = "getQueueSize"
  /\ reply.value = 0
  /\ epc[1] = "returned"

\* C17: an invocation of processQueue calls dequeueFormatacao at most once and
\* processarFormatacao at most once; one whose dequeue returned null has
\* called none of the executor, requeueFormatacao and saveTaskResult.
C17_OneTaskPerInvocation ==
  \A d \in Dispatchers :
    /\ calls[d].dequeue <= 1
    /\ calls[d].executor <= 1
    /\ GotNull(d) =>
         (calls[d].executor = 0 /\ calls[d].requeue = 0 /\ calls[d].save = 0)

\* C17's case: an invocation is over after one task while another task is
\* still pending in the queue.
C17_Witness ==
  \E d \in Dispatchers :
    /\ pc[d] = "end"
    /\ calls[d].dequeue = 1
    /\ calls[d].executor = 1
    /\ queue # {}
    /\ \A e \in queue : Task(e).id # task[d].id

\* The fn() calls that threw.
Failures == {k \in 1 .. Len(fnCalls) : fnCalls[k].kind = "thrown"}

Min(a, b) == IF a <= b THEN a ELSE b

\* C18: with maxRetries >= 1, fn is never called again after a call of it
\* returned and never more than maxRetries times; a return of fn ends the
\* call at once with that value as the result, and a call that ends otherwise
\* has called fn maxRetries times.
C18_RetryAttempts ==
  maxRetries >= 1 =>
    /\ Len(fnCalls) <= maxRetries
    /\ \A k \in 1 .. Len(fnCalls) - 1 : fnCalls[k].kind = "thrown"
    /\ (fnCalls # <<>> /\ fnCalls[Len(fnCalls)].kind = "returned") =>
         (rpc = "done" /\ result = fnCalls[Len(fnCalls)])
    /\ (rpc = "done" /\ result.kind # "returned") => Len(fnCalls) = maxRetries

\* C18's case: of three attempts allowed the second returned, and that ended
\* the call.
C18_Witness ==
  /\ rpc = "done"
  /\ maxRetries = 3
  /\ Len(fnCalls) = 2
  /\ result = Returned("r2")

C20_LastErrorThrown ==
  (maxRetries >= 1 /\ rpc = "done" /\ result.kind = "thrown") =>
    /\ fnCalls # <<>>
    /\ result = fnCalls[Len(fnCalls)]
    /\ result.value.call = maxRetries

\* C20's case: both attempts allowed threw, with one message; the error
\* thrown is the second one.
C20_Witness ==
  /\ rpc = "done"
  /\ maxRetries = 2
  /\ result.kind = "thrown"
  /\ result.value.call = 2
  /\ fnCalls[1].value.message = fnCalls[2].value.message

\* C21: processarFormatacao is called at most maxAttempts (3) times for one
\* id, all invocations of all Dispatchers taken together.
C21_BoundedRetry ==
  \A i \in Jobs : executed[i] <= MAX_ATTEMPTS

\* What C21 asks for, where Dispatcher invocations never overlap.
BoundedRetryOneDispatcher ==
  Cardinality(deployment.dispatchers) = 1 => \A i \in Jobs : executed[i] <= MAX_ATTEMPTS

\* The Date.now() of line 149 that a requeued entry's score was computed from.
RequeueTime(e) == e.score - (Task(e).priority + Task(e).attempts) * WEIGHT

\* An entry of job j with attempts a waits in the queue.
Waits(j, a) == \E e \in queue : Task(e).id = j /\ Task(e).attempts = a

\* A dequeueFormatacao call has read the task of job j with attempts a.
Taken(j, a) ==
  \E d \in Dispatchers :
    pc[d] \in {"zrem", "set", "exec"} /\ task[d].id = j /\ task[d].attempts = a

\* C22: a requeue that returns true puts the task at the score
\* (priority + attempts) * WEIGHT + now; a dequeue never takes a requeued task
\* while a never-failed task of its priority that was there when it was
\* requeued is pending; a never-failed task is taken ahead of a pending
\* requeued one of its priority only if it came within attempts * WEIGHT ms
\* of the requeue; and under LiveSpec every requeued entry is taken in the end.
C22_DegradedRequeue ==
  /\ [][\A d \in Dispatchers :
         (requeued[d] = "none" /\ requeued'[d] = "true") =>
           \E e \in queue' :
             /\ e.member = JSONstringify(task'[d])
             /\ e.score = (task[d].priority + task[d].attempts + 1) * WEIGHT + now]_vars
  /\ [][\A d \in Dispatchers : Reads(d) =>
         \A r, b \in queue :
           (/\ Task(r).attempts > 0
            /\ Task(b).attempts = 0
            /\ Task(r).priority = Task(b).priority)
           => /\ ~(r.member = taskData'[d] /\ ScoreTime(b) <= RequeueTime(r))
              /\ b.member = taskData'[d] =>
                   ScoreTime(b) <= RequeueTime(r) + Task(r).attempts * WEIGHT]_vars
  /\ \A j \in Jobs : \A a \in 1 .. MAX_ATTEMPTS - 1 : Waits(j, a) ~> Taken(j, a)

\* C22's case: a task requeued once is taken while a never-failed task of its
\* priority, which came more than WEIGHT ms after the requeue, is pending.
C22_Witness ==
  \E d \in Dispatchers :
    /\ pc[d] = "zrem"
    /\ task[d].attempts = 1
    /\ \E b \in queue :
         /\ Task(b).attempts = 0
         /\ Task(b).priority = task[d].priority
         /\ Task(b).id # task[d].id
         /\ \E r \in queue :
              r.member = taskData[d] /\ ScoreTime(b) > RequeueTime(r) + WEIGHT

Quiescent ==
  /\ \A j \in Jobs : epc[j] # "set"
  /\ \A d \in Dispatchers : pc[d] = "idle"

\* C25: when nothing is under way and no status record has expired, every id
\* whose enqueueFormatacao returned has an entry in the queue or the status
\* success or failed.
C25_NoTaskLoss ==
  (Quiescent /\ \A i \in Jobs : written[i] # Never => Get(status, i) # NoRecord) =>
    \A j \in Jobs :
      epc[j] = "returned" =>
        \/ \E e \in queue : Task(e).id = j
        \/ Get(status, j).status \in {"success", "failed"}

\* The front entry of the queue is not JSON.
Stalled == ZRange00(queue) # <<>> /\ SyntaxError(ZRange00(queue)[1])

\* C24: while the entry of lowest score is not JSON, every dequeueFormatacao
\* call that gets to look at the queue throws into its caller instead of
\* returning null or a task, and leaves the queue and every status record as
\* they are; so no task is handed out for as long as the entry is there.
C24_MalformedEntry ==
  [][\A d \in Dispatchers :
       (redisUrl /\ Stalled /\ pc[d] = "idle" /\ pc'[d] # "idle") =>
         /\ pc'[d] = "end"
         /\ "dequeueFormatacao" \in calls'[d].threw
         /\ task'[d] = NoTask
         /\ queue' = queue
         /\ status' = status
         /\ returned' = returned]_vars

\* C24's case: a task is pending behind an entry that is not JSON and a
\* dequeue has thrown over the latter.
C24_Witness ==
  /\ Stalled
  /\ \E e \in queue : Task(e).id \in Jobs
  /\ epc[1] = "returned"
  /\ \E d \in Dispatchers :
       pc[d] = "end" /\ calls[d].threw = {"dequeueFormatacao"} /\ task[d] = NoTask

\* The /formatar handler (141-159) of job j has gone on to process the job
\* itself because enqueueFormatacao threw.
SyncFallback(j) == epc[j] = "thrown"

\* C26: a job whose enqueueFormatacao threw, and which the handler therefore
\* processes itself, has no entry in the queue and is never processed by a
\* Dispatcher.
C26_SingleExecutionPath ==
  \A j \in Jobs :
    SyncFallback(j) => (executed[j] = 0 /\ \A e \in queue : Task(e).id # j)

\* C27: no invocation of processQueue ends by raising: whichever of its
\* calls throws, the invocation goes on in its own catch or runs to its end.
C27_InvocationNeverRaises ==
  /\ [](\A d \in Dispatchers : pc[d] # "raised")
  /\ [][\A d \in Dispatchers :
         calls'[d].threw \ calls[d].threw # {} => pc'[d] \in {"catch", "end"}]_vars

\* C27's case: saveTaskResult threw, requeueFormatacao called from the catch
\* threw as well, and the invocation has run to its end.
C27_Witness ==
  \E d \in Dispatchers :
    /\ pc[d] = "end"
    /\ calls[d].threw = {"saveTaskResult", "requeueFormatacao"}
    /\ requeued[d] = "thrown"

\* C28: a requeue that returns true puts back the member that was dequeued
\* with attempts one higher and every other field as it was, at the score
\* (priority + attempts) * WEIGHT + now, touches no other entry and no status
\* record.
C28_RequeueChangesOnlyAttempts ==
  [][\A d \in Dispatchers :
       (requeued[d] = "none" /\ requeued'[d] = "true") =>
         LET old == JSONparse(taskData[d])
             new == [old EXCEPT !.attempts = old.attempts + 1]
             entry == [member |-> JSONstringify(new),
                       score |-> (old.priority + new.attempts) * WEIGHT + now]
         IN /\ entry \in queue'
            /\ queue' \ {entry} \subseteq queue
            /\ \A e \in queue \ queue' : e.member = entry.member
            /\ status' = status]_vars

\* C28's case: a task of priority 4 has been requeued twice and waits in the
\* queue with priority 4, attempts 2 and the score of priority 6.
C28_Witness ==
  /\ \E d \in Dispatchers : requeued[d] = "true" /\ task[d].attempts = 2
  /\ \E e \in queue :
       /\ Task(e).priority = 4
       /\ Task(e).attempts = 2
       /\ e.score >= 6 * WEIGHT

====
